---- MODULE Spec2Model ----
(***************************************************************************)
(* Resilient AI-call layer of Pulse360 (backend/app/core/flux_ai):         *)
(*   - CircuitBreaker        circuit_breaker.py                            *)
(*   - get_fallback_response fallback.py                                   *)
(*   - FluxAIClient methods  client.py (decorated with the breaker)        *)
(*   - EnhancedCache         enhanced_cache.py (Redis + ai_cache table)    *)
(*                                                                         *)
(* Coroutines interleave at every await: an action is the code between two *)
(* awaits of one coroutine.  Time is a discrete clock.                     *)
(***************************************************************************)
EXTENDS Integers, Sequences, FiniteSets, TLC

VARIABLES
    \* ---- clock
    now,                \* time.time() / datetime.utcnow()
    ticks,              \* number of clock advances so far (bounds the run)
    \* ---- CircuitBreaker instance
    failure_threshold,  \* constructor argument
    recovery_timeout,   \* constructor argument
    state,              \* CircuitState
    failure_count,
    last_failure_time,
    calls,              \* per caller: the call() coroutine it runs, and its outcome
    \* ---- history of the breaker (not read by the code)
    openedAt,           \* time of the latest transition to OPEN (-1: never)
    consec,             \* failing calls completed in a row since creation / close / success
    allFailed,          \* TRUE while every completed real call has failed
    \* ---- EnhancedCache instance
    redis,              \* volatile store: key -> entry
    db,                 \* ai_cache table: request_hash -> row (UNIQUE)
    procs,              \* per caller: the get_or_execute coroutine it runs
    prev,               \* (history) the result the latest get_or_execute stored, while
                        \* nothing but the clock has moved since
    rowcount,           \* what the latest cleanup_expired() returned (count)
    \* ---- _generate_cache_key
    keyCalls,           \* the two calls whose keys are generated
    keyOut,             \* the key generated for each of them (<<>>: not yet)
    \* ---- get_fallback_response called directly
    fbCall,             \* the call: function_name, positional count, keyword names
    fbOut               \* what the call gave

breakerVars == <<failure_threshold, recovery_timeout, state, failure_count,
                 last_failure_time, calls, openedAt, consec, allFailed>>
keyVars     == <<keyCalls, keyOut>>
fallbackVars == <<fbCall, fbOut>>
cacheVars   == <<redis, db, procs, prev, rowcount, keyVars, fallbackVars>>
vars        == <<now, ticks, breakerVars, cacheVars>>

(***************************************************************************)
(* Bounds of the model                                                     *)
(***************************************************************************)
MaxThreshold == 2       \* failure_threshold ranges over 1..MaxThreshold
MaxTimeout   == 2       \* recovery_timeout ranges over 1..MaxTimeout
MaxFailures  == 4       \* cap of failure_count
MaxTicks     == 5       \* clock advances in a run
MaxPos       == 3       \* positional arguments a caller passes to a client method

Callers == {"c1", "c2"}

(***************************************************************************)
(* CircuitState                                                            *)
(***************************************************************************)
default_failure_threshold == 5    \* CircuitBreaker.__init__
default_recovery_timeout  == 30   \* CircuitBreaker.__init__

CLOSED    == "closed"
OPEN      == "open"
HALF_OPEN == "half_open"
CircuitState == {CLOSED, OPEN, HALF_OPEN}

(***************************************************************************)
(* Python's binding of a call's arguments to a signature.                  *)
(* sig  = [params: sequence of names, required: how many have no default,  *)
(*         varargs: *args present, varkw: **kwargs present]                *)
(* npos = number of positional arguments, kw = set of keyword names.       *)
(* TRUE when the call binds, FALSE when Python raises TypeError.           *)
(***************************************************************************)
Min(a, b) == IF a < b THEN a ELSE b

Binds(sig, npos, kw) ==
    LET n      == Len(sig.params)
        byPos  == {sig.params[i] : i \in 1..Min(npos, n)}
        names  == {sig.params[i] : i \in 1..n}
    IN  /\ (npos > n => sig.varargs)                       \* too many positionals
        /\ kw \cap byPos = {}                               \* multiple values for a parameter
        /\ (kw \ names # {} => sig.varkw)                   \* unexpected keyword
        /\ \A i \in 1..sig.required : i <= npos \/ sig.params[i] \in kw  \* missing argument

(***************************************************************************)
(* FluxAIClient: the five decorated methods, "self" included.              *)
(***************************************************************************)
ClientOps == {"upload_file", "list_files", "get_file", "delete_file", "chat_completion"}

MethodSig(op) ==
    CASE op = "upload_file" ->
           [params |-> <<"self", "file", "filename", "tags">>, required |-> 3,
            varargs |-> FALSE, varkw |-> FALSE]
      [] op = "list_files" ->
           [params |-> <<"self">>, required |-> 1, varargs |-> FALSE, varkw |-> FALSE]
      [] op = "get_file" ->
           [params |-> <<"self", "file_id">>, required |-> 2,
            varargs |-> FALSE, varkw |-> FALSE]
      [] op = "delete_file" ->
           [params |-> <<"self", "file_id">>, required |-> 2,
            varargs |-> FALSE, varkw |-> FALSE]
      [] op = "chat_completion" ->
           [params |-> <<"self", "messages", "attachments", "preamble", "model",
                         "stream", "mode">>, required |-> 2,
            varargs |-> FALSE, varkw |-> FALSE]

(***************************************************************************)
(* fallback.py                                                             *)
(***************************************************************************)
FallbackSig(op) ==
    CASE op = "upload_file" ->
           [params |-> <<"file", "filename", "tags">>, required |-> 2,
            varargs |-> FALSE, varkw |-> FALSE]
      [] op = "list_files" ->
           [params |-> <<>>, required |-> 0, varargs |-> TRUE, varkw |-> TRUE]
      [] op = "get_file" ->
           [params |-> <<"file_id">>, required |-> 1, varargs |-> TRUE, varkw |-> TRUE]
      [] op = "delete_file" ->
           [params |-> <<"file_id">>, required |-> 1, varargs |-> TRUE, varkw |-> TRUE]
      [] op = "chat_completion" ->
           [params |-> <<"messages">>, required |-> 1, varargs |-> TRUE, varkw |-> TRUE]

\* An outcome of a call: what the caller gets.
Returned(v, o) == [kind |-> "return", val |-> v, of |-> o]
Raised(e)      == [kind |-> "raise",  val |-> e, of |-> ""]
NoOutcome      == [kind |-> "none",   val |-> "", of |-> ""]

\* get_fallback_response(function_name, *args, **kwargs): dispatch on the name,
\* then the call of the chosen _fallback_* with the same arguments.
get_fallback_response(function_name, npos, kw) ==
    IF function_name \in ClientOps
    THEN IF Binds(FallbackSig(function_name), npos, kw)
         THEN Returned("fallback", function_name)
         ELSE Raised("TypeError")
    ELSE Returned("fallback", "generic")

\* The dict each branch of get_fallback_response returns ("generic": the else
\* branch, line 39).  None is written "None", an empty list <<>>.
FallbackBody(branch) ==
    CASE branch = "upload_file" ->
           [success |-> FALSE,
            message |-> "Unable to upload file to AI service at this time. The file has been stored locally and will be processed when the service is available.",
            data |-> <<>>]
      [] branch = "list_files" ->
           [success |-> FALSE,
            message |-> "Unable to fetch files from AI service at this time.",
            data |-> <<>>, count |-> 0]
      [] branch = "get_file" ->
           [success |-> FALSE,
            message |-> "Unable to fetch file details from AI service at this time.",
            data |-> "None"]
      [] branch = "delete_file" ->
           [success |-> FALSE,
            message |-> "Unable to delete file from AI service at this time. The operation will be retried later."]
      [] branch = "chat_completion" ->
           [choices |-> <<[finish_reason |-> "stop",
                           message |-> [role |-> "assistant",
                                        content |-> "I'm sorry, but the AI service is currently unavailable. Your request has been saved and will be processed when the service is back online."]]>>,
            created |-> 0,
            id |-> "fallback_response",
            model |-> "fallback",
            usage |-> <<[completion_tokens |-> 0, prompt_tokens |-> 0,
                         total_tokens |-> 0]>>]
      [] OTHER ->
           [success |-> FALSE, message |-> "Service unavailable. Please try again later."]

(***************************************************************************)
(* Call forms: which function a caller calls through the breaker and how.  *)
(* A client method is reached through the decorator's wrapper, which       *)
(* forwards (self, *args, **kwargs): the breaker and the fallback handler  *)
(* see one positional argument more than the caller wrote.                 *)
(***************************************************************************)
KwOf(op) == {MethodSig(op).params[i] : i \in 2..Len(MethodSig(op).params)}

ClientForms ==
    {f \in [op : ClientOps, npos : 0..MaxPos + 1, kw : SUBSET {"file", "filename", "tags",
                                                     "file_id", "messages", "mode"}] :
        /\ f.npos >= 1                                   \* self
        /\ f.kw \subseteq KwOf(f.op)
        /\ Binds(MethodSig(f.op), f.npos, f.kw)}         \* a valid call of the method

\* A plain coroutine function wrapped with CircuitBreaker.call directly.
PlainForm == [op |-> "fetch", npos |-> 1, kw |-> {}]

\* The forms the two interleaved callers of SpecBreaker use.
BreakerForms ==
    {PlainForm,
     [op |-> "delete_file", npos |-> 2, kw |-> {}],          \* delete_file(id)
     [op |-> "chat_completion", npos |-> 1, kw |-> {"messages", "mode"}]}

FallbackOutcome(form) == get_fallback_response(form.op, form.npos, form.kw)

\* The direct calls of get_fallback_response: a known or unknown function name,
\* npos positional arguments after it, and keyword arguments.
FallbackKw == {"file", "filename", "tags", "file_id", "messages", "mode"}
FallbackCalls == [name : ClientOps \cup {"fetch"}, npos : 0..MaxPos, kw : SUBSET FallbackKw]

\* get_fallback_response(name, *args, **kwargs) is called and returns or raises.
CallFallback ==
    /\ fbOut = NoOutcome
    /\ fbOut' = get_fallback_response(fbCall.name, fbCall.npos, fbCall.kw)
    /\ UNCHANGED fbCall
    /\ UNCHANGED <<now, ticks, failure_threshold, recovery_timeout, state, failure_count,
                   last_failure_time, calls, openedAt, consec, allFailed>>
    /\ UNCHANGED <<redis, db, procs, prev, rowcount, keyCalls, keyOut>>


(***************************************************************************)
(* CircuitBreaker (circuit_breaker.py)                                     *)
(***************************************************************************)
IdleCall == [pc |-> "idle", form |-> PlainForm, entry |-> "none", out |-> NoOutcome]

BreakerInit ==
    /\ state = CLOSED
    /\ failure_count = 0
    /\ last_failure_time = 0
    /\ calls = [c \in Callers |-> IdleCall]
    /\ openedAt = -1
    /\ consec = 0
    /\ allFailed = TRUE

\* A test that lets the trial through one time unit later.
RecoveryElapsedLate(t) == t >= last_failure_time + recovery_timeout + 2

\* call(), line 76: the recovery timeout has elapsed since the last failure.
RecoveryElapsed(t) == t > last_failure_time + recovery_timeout

\* An increment that is lost when another failure was counted before.
CountAfterFailureLost(n) == IF n >= 1 THEN n ELSE n + 1

\* record_failure(), line 110: self.failure_count += 1 (no await between the read
\* and the write).
CountAfterFailure(n) == n + 1

\* An except clause that catches everything.
CaughtByExceptAll(e) == TRUE

\* call(), line 96: except Exception.  asyncio.CancelledError derives from
\* BaseException (Python 3.8 and later) and passes through.
CaughtByExcept(e) == e # "CancelledError"

\* A threshold test that opens one failure late.
ThresholdReachedLate(count) == count > failure_threshold

\* record_failure(), lines 114-115: the threshold test.
ThresholdReached(count) == count >= failure_threshold

\* record_failure(): the state it leaves, from the state it finds and the new count.
StateAfterFailure(st, count) ==
    LET st1 == IF st = CLOSED /\ ThresholdReached(count) THEN OPEN ELSE st
    IN  IF st1 = HALF_OPEN THEN OPEN ELSE st1

\* A success that never closes the circuit.
AfterSuccessStays(st, count) == [state |-> st, failure_count |-> count]

\* call(), lines 89-92: the state and the count a successful call leaves.
AfterSuccess(st, count) ==
    IF st = HALF_OPEN THEN [state |-> CLOSED, failure_count |-> 0]
                      ELSE [state |-> st, failure_count |-> count]

\* A failing call that always re-raises.
AfterFailureAlwaysRaise(st, form) == Raised("func_error")

\* call(), lines 100-107: after record_failure, what the failing call gives its caller.
AfterFailureOutcome(st, form) ==
    IF st = OPEN THEN FallbackOutcome(form) ELSE Raised("func_error")

\* call(), lines 75-83, circuit OPEN and the timeout not elapsed: the fallback
\* handler answers, func is not awaited.
CallBlocked(c, form) ==
    /\ calls[c].pc = "idle"
    /\ state = OPEN
    /\ ~RecoveryElapsed(now)
    /\ calls' = [calls EXCEPT ![c] = [pc |-> "idle", form |-> form, entry |-> "open",
                                      out |-> FallbackOutcome(form)]]
    /\ UNCHANGED <<failure_threshold, recovery_timeout, state, failure_count,
                   last_failure_time, openedAt, consec, allFailed>>
    /\ UNCHANGED <<now, ticks, cacheVars>>

\* call(), lines 75-79 and 86 up to the await: circuit OPEN and the timeout elapsed,
\* the call sets HALF_OPEN and awaits func.
CallTrial(c, form) ==
    /\ calls[c].pc = "idle"
    /\ state = OPEN
    /\ RecoveryElapsed(now)
    /\ state' = HALF_OPEN
    /\ calls' = [calls EXCEPT ![c] = [pc |-> "awaiting", form |-> form, entry |-> "trial",
                                      out |-> NoOutcome]]
    /\ UNCHANGED <<failure_threshold, recovery_timeout, failure_count,
                   last_failure_time, openedAt, consec, allFailed>>
    /\ UNCHANGED <<now, ticks, cacheVars>>

\* call(), lines 75 and 86 up to the await: circuit CLOSED or HALF_OPEN, the call
\* awaits func.
CallPassed(c, form) ==
    /\ calls[c].pc = "idle"
    /\ state # OPEN
    /\ calls' = [calls EXCEPT ![c] = [pc |-> "awaiting", form |-> form, entry |-> state,
                                      out |-> NoOutcome]]
    /\ UNCHANGED <<failure_threshold, recovery_timeout, state, failure_count,
                   last_failure_time, openedAt, consec, allFailed>>
    /\ UNCHANGED <<now, ticks, cacheVars>>

\* call(), lines 86-94: func returned.
CallSucceed(c) ==
    /\ calls[c].pc = "awaiting"
    /\ LET after == AfterSuccess(state, failure_count)
       IN  /\ state' = after.state
           /\ failure_count' = after.failure_count
    /\ calls' = [calls EXCEPT ![c].pc = "idle", ![c].out = Returned("result", "")]
    /\ consec' = 0
    /\ allFailed' = FALSE
    /\ UNCHANGED <<failure_threshold, recovery_timeout, last_failure_time, openedAt>>
    /\ UNCHANGED <<now, ticks, cacheVars>>

\* call(), lines 96-107, with record_failure(), lines 109-123: func raised.
CallFail(c) ==
    /\ calls[c].pc = "awaiting"
    /\ failure_count < MaxFailures
    /\ failure_count' = CountAfterFailure(failure_count)
    /\ last_failure_time' = now
    /\ state' = StateAfterFailure(state, CountAfterFailure(failure_count))
    /\ calls' = [calls EXCEPT ![c].pc = "idle",
                               ![c].out = AfterFailureOutcome(state', calls[c].form)]
    /\ openedAt' = IF state # OPEN /\ state' = OPEN THEN now ELSE openedAt
    /\ consec' = consec + 1
    /\ UNCHANGED <<failure_threshold, recovery_timeout, allFailed>>
    /\ UNCHANGED <<now, ticks, cacheVars>>

\* call(), line 86: the caller cancels the call while func is awaited;
\* CancelledError is raised at the await.  Caught by line 96 it would be recorded as
\* a failure; it is not caught, and leaves call() as it is.
CallCancel(c) ==
    /\ calls[c].pc = "awaiting"
    /\ IF CaughtByExcept("CancelledError")
       THEN CallFail(c)
       ELSE /\ calls' = [calls EXCEPT ![c].pc = "idle",
                                     ![c].out = Raised("CancelledError")]
            /\ UNCHANGED <<failure_threshold, recovery_timeout, state, failure_count,
                           last_failure_time, openedAt, consec, allFailed>>
            /\ UNCHANGED <<now, ticks, cacheVars>>

\* func raises while the remote service is out: the outage lasts the first
\* MaxTicks advances of the clock, after which every func awaited returns.
CallFailEarly(c) ==
    /\ ticks < MaxTicks
    /\ CallFail(c)

(***************************************************************************)
(* The clock                                                               *)
(***************************************************************************)
Tick(d) ==
    /\ ticks < MaxTicks
    /\ now' = now + d
    /\ ticks' = ticks + 1
    /\ UNCHANGED <<breakerVars, cacheVars>>

\* The clock of a run without end: it is counted during the outage, and followed
\* afterwards for as long as call() can still read a different answer from it (the
\* circuit is OPEN and the recovery timeout has not elapsed, line 76).
TickOn ==
    /\ ticks < MaxTicks \/ (state = OPEN /\ ~RecoveryElapsed(now))
    /\ now' = now + 1
    /\ ticks' = IF ticks < MaxTicks THEN ticks + 1 ELSE ticks
    /\ UNCHANGED <<breakerVars, cacheVars>>


(***************************************************************************)
(* EnhancedCache (enhanced_cache.py)                                       *)
(*                                                                         *)
(* Payloads are JSON values (what response.json() gives): "A" and "B" are  *)
(* non-empty objects, "E" is an empty one ({}), which Python takes as      *)
(* false.  A wrapped function is named by the payload it returns.          *)
(***************************************************************************)
Keys     == {"k1", "k2"}
Payloads == {"A", "B", "E"}
Procs    == {"p1", "p2"}

default_ttl == 3600     \* EnhancedCache.__init__
max_tries   == 3        \* backoff.on_exception(max_tries=3)
MaxTtl      == 1        \* ttl arguments range over 0..MaxTtl (0: None or 0)
MaxCacheTicks == 2      \* clock advances in a run of the cache

\* Python truth value of a payload (if db_result:).
Truthy(v) == v # "E"

\* json.dumps / json.loads on JSON values.
json_dumps(v) == <<"json", v>>
json_loads(t) == t[2]

\* ttl or self.default_ttl
EffTtl(ttl) == IF ttl = 0 THEN default_ttl ELSE ttl

\* Redis entry: the serialized value, the time Redis drops it (SET ... EX), and
\* (history) the expires_at the payload was given when it was written.
NoEntry == [val |-> <<>>, exp |-> 0, ea |-> 0]
\* ai_cache row.
NoRow   == [response_data |-> "", expires_at |-> 0]

\* A redis.get that never finds the key (what C7 excludes).
RedisGetOtherKey(k) == <<>>

\* redis.get(key): None (<<>>) for a missing or expired key.
RedisGet(k) == IF redis[k] # NoEntry /\ now < redis[k].exp THEN redis[k].val ELSE <<>>

\* if cached_data: (bytes: true unless empty)
BytesTruthy(t) == t # <<>>

\* _get_from_db_cache, lines 178-187: the row's response_data, or "" for None.
DbSelectValid(k) ==
    IF db[k] # NoRow /\ db[k].expires_at > now THEN db[k].response_data ELSE ""

\* if db_result:
DbHit(v) == v # "" /\ Truthy(v)

\* The errors a wrapped function raises.
FuncErrors == {"http_5xx", "http_4xx", "timeout", "other"}

\* A backoff that retries after every error.
RetriableAll(e) == TRUE

\* backoff.on_exception((HTTPError, TimeoutException), giveup=...): the errors it
\* retries.
Retriable(e) == e \in {"http_5xx", "timeout"}

\* A get_or_execute that wraps func's error in one of its own.
ExecFailOutcomeWrapped(e) == Raised("cache_error")

\* get_or_execute, line 87: func's final error leaves get_or_execute as it is
\* (no try around the await).
ExecFailOutcome(e) == Raised(e)

\* row: what _cache_result's select found, "none", "live" (a row, still there) or
\* "gone" (a row, deleted since).  lastErr: the error func raised before this attempt.
IdleProc == [pc |-> "idle", key |-> "k1", ttl |-> 0, bypass |-> FALSE, func |-> "A",
             val |-> "", ea |-> 0, invoked |-> 0, lastErr |-> "", row |-> "none",
             wrote |-> FALSE, src |-> "none", out |-> NoOutcome]

CacheInit ==
    /\ redis = [k \in Keys |-> NoEntry]
    /\ db = [k \in Keys |-> NoRow]
    /\ procs = [p \in Procs |-> IdleProc]
    /\ prev = [kind |-> "none", key |-> "k1", val |-> "", exp |-> 0, func |-> ""]
    /\ rowcount = 0

NoPrev == [kind |-> "none", key |-> "k1", val |-> "", exp |-> 0, func |-> ""]

\* A call that wrote its result returns: the result is stored, unless the key was
\* invalidated or lost since the write.
Stored == IF prev.kind = "storing" THEN [prev EXCEPT !.kind = "stored"] ELSE NoPrev

\* A call on key k with function func starts: it follows the stored result, or
\* the invalidation of k, if that is what came last.
Follow(k, func) ==
    CASE prev.kind = "stored" /\ prev.key = k ->
           [prev EXCEPT !.kind = "followed", !.func = func]
      [] prev.kind = "invalidated" /\ prev.key = k ->
           [prev EXCEPT !.kind = "refetching", !.func = func]
      [] OTHER -> NoPrev

NewCall(k, ttl, bypass, func) ==
    [IdleProc EXCEPT !.key = k, !.ttl = ttl, !.bypass = bypass, !.func = func]

\* The record of a call that has returned or raised: its outcome, where the
\* result came from, and what the call did.
Done(r, source, outcome) ==
    [IdleProc EXCEPT !.key = r.key, !.bypass = r.bypass, !.row = r.row,
                     !.invoked = r.invoked, !.wrote = r.wrote,
                     !.src = source, !.out = outcome]

\* What no step of get_or_execute, _cache_result or invalidate touches.
Unchanged_breaker == UNCHANGED <<now, ticks, breakerVars, rowcount, keyVars, fallbackVars>>

\* get_or_execute, lines 59-71: not bypassing, redis.get finds the key.
GoeRedisHit(p, k, ttl, func) ==
    /\ procs[p].pc = "idle"
    /\ BytesTruthy(RedisGet(k))
    /\ procs' = [procs EXCEPT ![p] =
                   Done(NewCall(k, ttl, FALSE, func), "redis",
                        Returned(json_loads(RedisGet(k)), ""))]
    /\ prev' = Follow(k, func)
    /\ UNCHANGED <<redis, db>>
    /\ Unchanged_breaker

\* get_or_execute, lines 59-69: not bypassing, redis.get finds nothing.
GoeRedisMiss(p, k, ttl, func) ==
    /\ procs[p].pc = "idle"
    /\ ~BytesTruthy(RedisGet(k))
    /\ procs' = [procs EXCEPT ![p] = [NewCall(k, ttl, FALSE, func) EXCEPT !.pc = "db_get"]]
    /\ prev' = Follow(k, func)
    /\ UNCHANGED <<redis, db>>
    /\ Unchanged_breaker

\* get_or_execute, lines 59-65: bypass_cache, func is awaited at once.
GoeBypass(p, k, ttl, func) ==
    /\ procs[p].pc = "idle"
    /\ procs' = [procs EXCEPT ![p] = [NewCall(k, ttl, TRUE, func) EXCEPT !.pc = "exec"]]
    /\ prev' = NoPrev
    /\ UNCHANGED <<redis, db>>
    /\ Unchanged_breaker

\* get_or_execute, lines 74-75, with _get_from_db_cache: the persistent lookup.
GoeDbLookup(p) ==
    /\ procs[p].pc = "db_get"
    /\ LET v == DbSelectValid(procs[p].key)
       IN  procs' = [procs EXCEPT ![p] =
                       IF DbHit(v)
                       THEN [procs[p] EXCEPT !.pc = "redis_fill", !.val = v,
                                             !.ea = db[procs[p].key].expires_at]
                       ELSE [procs[p] EXCEPT !.pc = "exec"]]
    /\ UNCHANGED <<redis, db, prev>>
    /\ Unchanged_breaker

\* get_or_execute, lines 76-83: the persistent hit is copied to Redis and returned.
GoeRedisFill(p) ==
    /\ procs[p].pc = "redis_fill"
    /\ redis' = [redis EXCEPT ![procs[p].key] =
                   [val |-> json_dumps(procs[p].val),
                    exp |-> now + EffTtl(procs[p].ttl),
                    ea  |-> procs[p].ea]]
    /\ procs' = [procs EXCEPT ![p] =
                   Done([procs[p] EXCEPT !.wrote = TRUE], "db",
                        Returned(procs[p].val, ""))]
    /\ UNCHANGED <<db, prev>>
    /\ Unchanged_breaker

\* _execute_with_retry, line 113: func returns.  Bypassing (line 65) the result is
\* returned as it is; on a miss (lines 87-90) it goes on to _cache_result.
ExecReturn(p) ==
    /\ procs[p].pc = "exec"
    /\ LET r == [procs[p] EXCEPT !.invoked = @ + 1, !.lastErr = ""]
       IN  procs' = [procs EXCEPT ![p] =
                       IF r.bypass
                       THEN Done(r, "func", Returned(r.func, ""))
                       ELSE [r EXCEPT !.pc = "cache_redis", !.val = r.func]]
    /\ UNCHANGED <<redis, db, prev>>
    /\ Unchanged_breaker

\* _execute_with_retry: func raises e and backoff calls it again (a retriable
\* error, fewer than max_tries attempts made, max_time not used up).
ExecRetry(p, e) ==
    /\ procs[p].pc = "exec"
    /\ Retriable(e)
    /\ procs[p].invoked + 1 < max_tries
    /\ procs' = [procs EXCEPT ![p].invoked = @ + 1, ![p].lastErr = e]
    /\ UNCHANGED <<redis, db, prev>>
    /\ Unchanged_breaker

\* _execute_with_retry: func raises e and the error is final (not retriable, given
\* up on a response below 500, max_tries attempts made, or max_time used up):
\* get_or_execute, lines 65 and 87, lets it through.
ExecRaise(p, e) ==
    /\ procs[p].pc = "exec"
    /\ e \in FuncErrors
    /\ procs' = [procs EXCEPT ![p] =
                   Done([procs[p] EXCEPT !.invoked = @ + 1], "none",
                        ExecFailOutcome(e))]
    /\ UNCHANGED <<redis, db, prev>>
    /\ Unchanged_breaker

\* _cache_result, lines 125-129: the result is written to Redis.
CacheRedisSet(p) ==
    /\ procs[p].pc = "cache_redis"
    /\ redis' = [redis EXCEPT ![procs[p].key] =
                   [val |-> json_dumps(procs[p].val),
                    exp |-> now + EffTtl(procs[p].ttl),
                    ea  |-> now + EffTtl(procs[p].ttl)]]
    /\ procs' = [procs EXCEPT ![p].pc = "cache_db", ![p].wrote = TRUE,
                              ![p].ea = now + EffTtl(procs[p].ttl)]
    /\ prev' = [kind |-> "storing", key |-> procs[p].key, val |-> procs[p].val,
                exp |-> now + EffTtl(procs[p].ttl), func |-> ""]
    /\ UNCHANGED db
    /\ Unchanged_breaker

\* The table after _cache_result's commit, lines 141-155, for a call that found
\* row (its select) and writes val with expires_at ea to a key whose row is now cur:
\* a found row is updated in place; an UPDATE of a row deleted since matches nothing
\* and an INSERT beside a row committed since breaks UNIQUE(request_hash): both
\* raise at the commit, and lines 158-160 roll back and log.
RowAfterInsertOnly(cur, row, val, ea) ==
    IF cur = NoRow THEN [response_data |-> val, expires_at |-> ea] ELSE cur

RowAfterWrite(cur, row, val, ea) ==
    CASE row = "live" -> [response_data |-> val, expires_at |-> ea]
      [] row = "gone" -> cur
      [] OTHER        -> IF cur = NoRow THEN [response_data |-> val, expires_at |-> ea]
                                        ELSE cur

\* _cache_result, lines 132-139: expires_at was fixed after redis.set; the select
\* by request_hash (no test of expires_at) finds the row or not.
CacheDbSelect(p) ==
    /\ procs[p].pc = "cache_db"
    /\ procs' = [procs EXCEPT ![p].pc = "cache_commit",
                              ![p].row = IF db[procs[p].key] # NoRow THEN "live" ELSE "none"]
    /\ UNCHANGED <<redis, db, prev>>
    /\ Unchanged_breaker

\* _cache_result, lines 141-157: the row is updated or inserted and committed;
\* get_or_execute, line 92, returns the result.
CacheDbUpsert(p) ==
    /\ procs[p].pc = "cache_commit"
    /\ db' = [db EXCEPT ![procs[p].key] =
                RowAfterWrite(db[procs[p].key], procs[p].row, procs[p].val, procs[p].ea)]
    /\ prev' = Stored
    /\ procs' = [procs EXCEPT ![p] = Done(procs[p], "func", Returned(procs[p].val, ""))]
    /\ UNCHANGED redis
    /\ Unchanged_breaker

(***************************************************************************)
(* FluxAICache (cache.py), the exported flux_ai_cache: get_or_execute is   *)
(* the one above without bypass and retries; _cache_result differs.        *)
(***************************************************************************)
\* The table after FluxAICache._cache_result, lines 106-117: AICache(...) is added
\* and committed whatever the table holds; beside a row of the key the INSERT
\* breaks UNIQUE(request_hash), and lines 115-117 roll back and log.
RowAfterAdd(cur, val, ea) ==
    IF cur = NoRow THEN [response_data |-> val, expires_at |-> ea] ELSE cur

\* FluxAICache._cache_result, lines 105-117, and get_or_execute, line 86.
FluxCacheDbAdd(p) ==
    /\ procs[p].pc = "cache_db"
    /\ db' = [db EXCEPT ![procs[p].key] =
                RowAfterAdd(db[procs[p].key], procs[p].val, procs[p].ea)]
    /\ prev' = Stored
    /\ procs' = [procs EXCEPT ![p] = Done(procs[p], "func", Returned(procs[p].val, ""))]
    /\ UNCHANGED redis
    /\ Unchanged_breaker

(***************************************************************************)
(* Cache -> Circuit Breaker -> Remote Client: get_or_execute is given a    *)
(* client method, which the decorator has wrapped in CircuitBreaker.call.  *)
(* Caller p of the cache awaits func, which is call c of the breaker.      *)
(***************************************************************************)
\* flux_ai_client.list_files as func: the wrapper forwards self.
ComposedForm == [op |-> "list_files", npos |-> 1, kw |-> {}]

\* _execute_with_retry is about to await func: the breaker call has not begun.
ExecAwaitsBreaker(p, c) ==
    /\ procs[p].pc = "exec"
    /\ calls[c].pc = "idle"
    /\ calls[c].out = NoOutcome

\* _execute_with_retry, line 113: the breaker call returned (func's result or the
\* fallback response); get_or_execute, lines 65 and 87-90, goes on with it.
ExecBreakerReturn(p, c) ==
    /\ procs[p].pc = "exec"
    /\ calls[c].pc = "idle"
    /\ calls[c].out.kind = "return"
    /\ LET r == [procs[p] EXCEPT !.invoked = @ + 1, !.lastErr = ""]
       IN  procs' = [procs EXCEPT ![p] =
                       IF r.bypass
                       THEN Done(r, "func", Returned(calls[c].out.val, ""))
                       ELSE [r EXCEPT !.pc = "cache_redis", !.val = calls[c].out.val]]
    /\ calls' = [calls EXCEPT ![c] = IdleCall]
    /\ UNCHANGED <<redis, db, prev, rowcount, keyVars, fallbackVars>>
    /\ UNCHANGED <<now, ticks, failure_threshold, recovery_timeout, state, failure_count,
                   last_failure_time, openedAt, consec, allFailed>>

\* _execute_with_retry: the breaker call re-raised func's error, a retriable one
\* (HTTP 5xx), and backoff awaits func again.
ExecBreakerRetry(p, c) ==
    /\ procs[p].pc = "exec"
    /\ calls[c].pc = "idle"
    /\ calls[c].out.kind = "raise"
    /\ Retriable("http_5xx")
    /\ procs[p].invoked + 1 < max_tries
    /\ procs' = [procs EXCEPT ![p].invoked = @ + 1, ![p].lastErr = "http_5xx"]
    /\ calls' = [calls EXCEPT ![c] = IdleCall]
    /\ UNCHANGED <<redis, db, prev, rowcount, keyVars, fallbackVars>>
    /\ UNCHANGED <<now, ticks, failure_threshold, recovery_timeout, state, failure_count,
                   last_failure_time, openedAt, consec, allFailed>>

\* _execute_with_retry: the breaker call raised and the error is final.
ExecBreakerRaise(p, c) ==
    /\ procs[p].pc = "exec"
    /\ calls[c].pc = "idle"
    /\ calls[c].out.kind = "raise"
    /\ procs' = [procs EXCEPT ![p] =
                   Done([procs[p] EXCEPT !.invoked = @ + 1], "none",
                        ExecFailOutcome(calls[c].out.val))]
    /\ calls' = [calls EXCEPT ![c] = IdleCall]
    /\ UNCHANGED <<redis, db, prev, rowcount, keyVars, fallbackVars>>
    /\ UNCHANGED <<now, ticks, failure_threshold, recovery_timeout, state, failure_count,
                   last_failure_time, openedAt, consec, allFailed>>

(***************************************************************************)
(* Failing store operations                                                *)
(***************************************************************************)
\* get_or_execute, line 68: redis.get raises; nothing catches it.
GoeRedisGetFails(p, k, ttl, func) ==
    /\ procs[p].pc = "idle"
    /\ procs' = [procs EXCEPT ![p] =
                   Done(NewCall(k, ttl, FALSE, func), "none", Raised("RedisError"))]
    /\ prev' = NoPrev
    /\ UNCHANGED <<redis, db>>
    /\ Unchanged_breaker

\* _get_from_db_cache, lines 188-190: the query raises; logged, None returned.
GoeDbLookupFails(p) ==
    /\ procs[p].pc = "db_get"
    /\ procs' = [procs EXCEPT ![p].pc = "exec"]
    /\ UNCHANGED <<redis, db, prev>>
    /\ Unchanged_breaker

\* get_or_execute, line 78: redis.set raises; nothing catches it.
GoeRedisFillFails(p) ==
    /\ procs[p].pc = "redis_fill"
    /\ procs' = [procs EXCEPT ![p] = Done(procs[p], "none", Raised("RedisError"))]
    /\ UNCHANGED <<redis, db, prev>>
    /\ Unchanged_breaker

\* _cache_result, line 125: redis.set raises; nothing catches it.
CacheRedisSetFails(p) ==
    /\ procs[p].pc = "cache_redis"
    /\ procs' = [procs EXCEPT ![p] = Done(procs[p], "none", Raised("RedisError"))]
    /\ UNCHANGED <<redis, db, prev>>
    /\ Unchanged_breaker

\* _cache_result, lines 158-160: the database raises; rolled back and logged, the
\* result is returned.
CacheDbFails(p) ==
    /\ procs[p].pc \in {"cache_db", "cache_commit"}
    /\ prev' = Stored
    /\ procs' = [procs EXCEPT ![p] = Done(procs[p], "func", Returned(procs[p].val, ""))]
    /\ UNCHANGED <<redis, db>>
    /\ Unchanged_breaker

(***************************************************************************)
(* invalidate, cleanup_expired, and the volatile store losing a key        *)
(***************************************************************************)
\* The rows of the keys ks are deleted: a _cache_result that selected one of them
\* and has not committed holds a row that is gone.
RowsGone(ks) ==
    [p \in Procs |-> IF procs[p].pc = "cache_commit" /\ procs[p].key \in ks
                                                     /\ procs[p].row = "live"
                     THEN [procs[p] EXCEPT !.row = "gone"] ELSE procs[p]]

\* cleanup_expired(), line 266: the rows its DELETE matches.
RowExpiredSwapped(r) == r # NoRow /\ r.expires_at > now

RowExpired(r) == r # NoRow /\ r.expires_at < now

\* invalidate(k) has returned while no get_or_execute was running: what the
\* table held for k is remembered.
Invalidated(k) ==
    IF \A p \in Procs : procs[p].pc = "idle"
    THEN [kind |-> "invalidated", key |-> k, val |-> db[k].response_data, exp |-> 0,
          func |-> ""]
    ELSE NoPrev

\* An invalidate that forgets the table.
InvalidateVolatileOnly(k) ==
    /\ redis' = [redis EXCEPT ![k] = NoEntry]
    /\ prev' = Invalidated(k)
    /\ UNCHANGED <<db, procs>>
    /\ Unchanged_breaker

\* invalidate(cache_key), lines 241-250.
Invalidate(k) ==
    /\ redis' = [redis EXCEPT ![k] = NoEntry]
    /\ db' = [db EXCEPT ![k] = NoRow]
    /\ prev' = Invalidated(k)
    /\ procs' = RowsGone({k} \cap {j \in Keys : db[j] # NoRow})
    /\ Unchanged_breaker

\* invalidate(k) has returned while a get_or_execute on k was running.
Raced(k) == [kind |-> "raced", key |-> k, val |-> "", exp |-> 0, func |-> ""]

\* invalidate(cache_key), lines 241-250, called and completed while a
\* get_or_execute on the key is between two of its awaits.
InvalidateDuring(k) ==
    /\ \E p \in Procs : procs[p].pc # "idle" /\ procs[p].key = k
    /\ redis' = [redis EXCEPT ![k] = NoEntry]
    /\ db' = [db EXCEPT ![k] = NoRow]
    /\ prev' = Raced(k)
    /\ procs' = RowsGone({k} \cap {j \in Keys : db[j] # NoRow})
    /\ Unchanged_breaker

\* cleanup_expired(), lines 262-278.
CleanupExpired ==
    /\ db' = [k \in Keys |-> IF RowExpired(db[k]) THEN NoRow ELSE db[k]]
    /\ rowcount' = Cardinality({k \in Keys : RowExpired(db[k])})
    /\ prev' = [NoPrev EXCEPT !.kind = "cleaned"]
    /\ procs' = RowsGone({k \in Keys : RowExpired(db[k])})
    /\ UNCHANGED <<redis, keyVars, fallbackVars>>
    /\ UNCHANGED <<now, ticks, breakerVars>>

\* Redis drops a key (eviction, restart).
RedisLose(k) ==
    /\ redis[k] # NoEntry
    /\ redis' = [redis EXCEPT ![k] = NoEntry]
    /\ prev' = NoPrev
    /\ UNCHANGED <<db, procs>>
    /\ Unchanged_breaker

\* The clock advances by d; Redis drops the keys whose time has come.
CacheTick(d) ==
    /\ ticks < MaxCacheTicks
    /\ now' = now + d
    /\ ticks' = ticks + 1
    /\ redis' = [k \in Keys |-> IF redis[k] # NoEntry /\ redis[k].exp <= now + d
                                THEN NoEntry ELSE redis[k]]
    /\ UNCHANGED <<db, procs, prev, rowcount, keyVars, fallbackVars>>
    /\ UNCHANGED breakerVars

(***************************************************************************)
(* _generate_cache_key (enhanced_cache.py and cache.py)                    *)
(* A text is a sequence of characters.  An argument object has a kind, a   *)
(* value (what == compares), an id (its address, what id() returns) and,   *)
(* for a dict, the order in which its items were inserted.                 *)
(***************************************************************************)
MaxArgs == 1            \* positional arguments of a call whose key is generated

Obj(kind, val, id, ord) == [kind |-> kind, val |-> val, id |-> id, ord |-> ord]

\* Positional arguments: the strings "x" and "a:x", equal tuples, equal lists and
\* equal dicts that are distinct objects; the two dicts were filled in different
\* orders.
PosObjects ==
    {Obj("scalar", <<"x">>, 0, 0), Obj("scalar", <<"a", ":", "x">>, 0, 0),
     Obj("tuple", <<"x">>, 1, 0), Obj("tuple", <<"x">>, 2, 0),
     Obj("list", <<"x">>, 1, 0),  Obj("list", <<"x">>, 2, 0),
     Obj("dict", <<"x">>, 1, 1),  Obj("dict", <<"x">>, 2, 2)}
KwObjects == {Obj("scalar", <<"x">>, 0, 0), Obj("scalar", <<"y">>, 0, 0)}
KwNames   == {"a", "b"}
FuncNames == {"f", "g"}

\* Python's == on argument objects.
ArgEq(a, b) == a.kind = b.kind /\ a.val = b.val

\* isinstance(arg, (str, int, float, bool, type(None)))
IsScalar(a) == a.kind = "scalar"
\* hash(arg) raises TypeError for a list or a dict.
Hashable(a) == a.kind \in {"scalar", "tuple"}

\* str(hash(arg)): a tuple hashes by value.
StrHash(a) == <<"#">> \o a.val
\* str(id(arg))
StrId(a) == <<"@", ToString(a.id)>>
\* str(arg): a dict prints its items in insertion order.
Str(a) ==
    CASE a.kind = "scalar" -> a.val
      [] a.kind = "tuple"  -> <<"(">> \o a.val \o <<",", ")">>
      [] a.kind = "list"   -> <<"[">> \o a.val \o <<"]">>
      [] a.kind = "dict"   -> IF a.ord = 1 THEN <<"{">> \o a.val \o <<",", "z", "}">>
                                           ELSE <<"{", "z", ",">> \o a.val \o <<"}">>

\* ":".join(parts)
RECURSIVE Join(_)
Join(parts) ==
    IF parts = <<>> THEN <<>>
    ELSE IF Len(parts) = 1 THEN parts[1]
    ELSE parts[1] \o <<":">> \o Join(Tail(parts))

\* sorted(kwargs.items()): the items by name (names are distinct).
RECURSIVE SortedItems(_)
SortedItems(kw) ==
    IF kw = <<>> THEN <<>>
    ELSE LET i == CHOOSE i \in 1..Len(kw) :
                     \A j \in 1..Len(kw) : kw[i].name = "a" \/ kw[j].name # "a"
             rest == [j \in 1..Len(kw) - 1 |-> IF j < i THEN kw[j] ELSE kw[j + 1]]
         IN  <<kw[i]>> \o SortedItems(rest)

\* hashlib.md5(key_str.encode()).hexdigest(): one digest per text.
md5(text) == <<"md5">> \o text

\* EnhancedCache._generate_cache_key, lines 206-231.
EnhancedArgPart(a) ==
    IF IsScalar(a) THEN a.val ELSE IF Hashable(a) THEN StrHash(a) ELSE StrId(a)

Enhanced_generate_cache_key(call) ==
    LET items == SortedItems(call.kwargs)
    IN  md5(Join(<<<<call.func>>>>
                 \o [i \in 1..Len(call.args) |-> EnhancedArgPart(call.args[i])]
                 \o [i \in 1..Len(items) |->
                       <<items[i].name, ":">> \o EnhancedArgPart(items[i].arg)]))

\* FluxAICache._generate_cache_key, lines 158-171.
Flux_generate_cache_key(call) ==
    LET items == SortedItems(call.kwargs)
    IN  md5(Join(<<<<call.func>>>>
                 \o [i \in 1..Len(call.args) |-> Str(call.args[i])]
                 \o [i \in 1..Len(items) |->
                       <<items[i].name, ":">> \o Str(items[i].arg)]))

\* The calls whose key is generated: kwargs is the sequence of the keyword
\* arguments in the order they were passed.
KwSeqs ==
    {<<>>}
    \cup {<<[name |-> n, arg |-> v]>> : n \in KwNames, v \in KwObjects}
    \cup UNION {{<<[name |-> n, arg |-> v], [name |-> m, arg |-> w]>> :
                   m \in KwNames \ {n}, v \in KwObjects, w \in KwObjects} :
                n \in KwNames}

ArgSeqs == UNION {[1..n -> PosObjects] : n \in 0..MaxArgs}

KeyCallSet == [func : FuncNames, args : ArgSeqs, kwargs : KwSeqs]

CacheClasses == {"EnhancedCache", "FluxAICache"}

\* cache._generate_cache_key(func, args, kwargs) for call i.
GenerateKey(i) ==
    /\ keyOut[i] = <<>>
    /\ keyOut' = [keyOut EXCEPT ![i] =
                    IF keyCalls.cache = "EnhancedCache"
                    THEN Enhanced_generate_cache_key(keyCalls.c[i])
                    ELSE Flux_generate_cache_key(keyCalls.c[i])]
    /\ UNCHANGED <<keyCalls, now, ticks, breakerVars, redis, db, procs, prev, rowcount>>
    /\ UNCHANGED fallbackVars

(***************************************************************************)
(* Specifications                                                          *)
(***************************************************************************)
\* No key is being generated.
KeyIdle ==
    /\ keyCalls = <<>>
    /\ keyOut = <<>>

\* get_fallback_response is not being called directly.
FallbackIdle ==
    /\ fbCall = <<>>
    /\ fbOut = NoOutcome

\* One direct call of get_fallback_response.
InitFallback ==
    /\ now = 0
    /\ ticks = 0
    /\ failure_threshold = default_failure_threshold
    /\ recovery_timeout = default_recovery_timeout
    /\ BreakerInit
    /\ CacheInit
    /\ KeyIdle
    /\ fbCall \in FallbackCalls
    /\ fbOut = NoOutcome

NextFallback == CallFallback

SpecFallback == InitFallback /\ [][NextFallback]_vars

\* Two calls whose keys one cache generates.
InitKeys ==
    /\ now = 0
    /\ ticks = 0
    /\ failure_threshold = default_failure_threshold
    /\ recovery_timeout = default_recovery_timeout
    /\ BreakerInit
    /\ CacheInit
    /\ keyCalls \in [cache : CacheClasses, c : [1..2 -> KeyCallSet]]
    /\ keyOut = <<<<>>, <<>>>>
    /\ FallbackIdle

NextKeys == \E i \in 1..2 : GenerateKey(i)

SpecKeys == InitKeys /\ [][NextKeys]_vars

\* A breaker built with any small threshold and timeout.
InitBreaker ==
    /\ now = 0
    /\ ticks = 0
    /\ failure_threshold \in 1..MaxThreshold
    /\ recovery_timeout \in 1..MaxTimeout
    /\ BreakerInit
    /\ CacheInit
    /\ KeyIdle
    /\ FallbackIdle

\* The module's singletons: circuit_breaker = CircuitBreaker(), enhanced_cache.
Init ==
    /\ now = 0
    /\ ticks = 0
    /\ failure_threshold = default_failure_threshold
    /\ recovery_timeout = default_recovery_timeout
    /\ BreakerInit
    /\ CacheInit
    /\ KeyIdle
    /\ FallbackIdle

\* Two callers interleaved on one breaker instance.
NextBreaker ==
    \/ \E c \in Callers, form \in BreakerForms : CallBlocked(c, form)
    \/ \E c \in Callers, form \in BreakerForms : CallTrial(c, form)
    \/ \E c \in Callers, form \in BreakerForms : CallPassed(c, form)
    \/ \E c \in Callers : CallSucceed(c)
    \/ \E c \in Callers : CallFail(c)
    \/ Tick(1)

SpecBreaker == InitBreaker /\ [][NextBreaker]_vars

\* Two callers of a plain function, who may cancel their calls.
NextCancel ==
    \/ \E c \in Callers : CallBlocked(c, PlainForm)
    \/ \E c \in Callers : CallTrial(c, PlainForm)
    \/ \E c \in Callers : CallPassed(c, PlainForm)
    \/ \E c \in Callers : CallSucceed(c)
    \/ \E c \in Callers : CallFail(c)
    \/ \E c \in Callers : CallCancel(c)
    \/ Tick(1)

SpecCancel == InitBreaker /\ [][NextCancel]_vars

\* Two callers of a plain function through an outage and after it.  Time goes on,
\* an awaited func completes, and each caller keeps calling.
NextRecover ==
    \/ \E c \in Callers : CallBlocked(c, PlainForm)
    \/ \E c \in Callers : CallTrial(c, PlainForm)
    \/ \E c \in Callers : CallPassed(c, PlainForm)
    \/ \E c \in Callers : CallSucceed(c)
    \/ \E c \in Callers : CallFailEarly(c)
    \/ TickOn

FairRecover ==
    /\ WF_vars(TickOn)
    /\ \A c \in Callers : WF_vars(CallSucceed(c))
    /\ \A c \in Callers : WF_vars(CallTrial(c, PlainForm))
    /\ \A c \in Callers : WF_vars(CallPassed(c, PlainForm))

SpecRecover == InitBreaker /\ [][NextRecover]_vars /\ FairRecover

\* One caller using every client method in every argument style.
NextClient ==
    \/ \E form \in ClientForms \cup {PlainForm} : CallBlocked("c1", form)
    \/ \E form \in ClientForms \cup {PlainForm} : CallTrial("c1", form)
    \/ \E form \in ClientForms \cup {PlainForm} : CallPassed("c1", form)
    \/ CallSucceed("c1")
    \/ CallFail("c1")
    \/ Tick(1)

SpecClient == InitBreaker /\ [][NextClient]_vars

\* One caller of the cache at a time; the stores work.
TtlArgs == 0..MaxTtl
OneKey == {"k1"}

NextCache ==
    \/ \E k \in OneKey, ttl \in TtlArgs, f \in Payloads : GoeRedisHit("p1", k, ttl, f)
    \/ \E k \in OneKey, ttl \in TtlArgs, f \in Payloads : GoeRedisMiss("p1", k, ttl, f)
    \/ \E k \in OneKey, ttl \in TtlArgs, f \in Payloads : GoeBypass("p1", k, ttl, f)
    \/ GoeDbLookup("p1")
    \/ GoeRedisFill("p1")
    \/ ExecReturn("p1")
    \/ \E e \in FuncErrors : ExecRetry("p1", e)
    \/ \E e \in FuncErrors : ExecRaise("p1", e)
    \/ CacheRedisSet("p1")
    \/ CacheDbSelect("p1")
    \/ CacheDbUpsert("p1")
    \/ \E k \in OneKey : Invalidate(k)
    \/ CleanupExpired
    \/ \E k \in OneKey : RedisLose(k)
    \/ \E d \in {1, default_ttl} : CacheTick(d)

SpecCache == Init /\ [][NextCache]_vars

\* One caller using both keys, with cleanup_expired.
NextCacheKeys ==
    \/ \E k \in Keys, ttl \in TtlArgs : GoeRedisHit("p1", k, ttl, "A")
    \/ \E k \in Keys, ttl \in TtlArgs : GoeRedisMiss("p1", k, ttl, "A")
    \/ GoeDbLookup("p1")
    \/ GoeRedisFill("p1")
    \/ ExecReturn("p1")
    \/ CacheRedisSet("p1")
    \/ CacheDbSelect("p1")
    \/ CacheDbUpsert("p1")
    \/ CleanupExpired
    \/ \E k \in Keys : RedisLose(k)
    \/ \E d \in {1, default_ttl} : CacheTick(d)

SpecCacheKeys == Init /\ [][NextCacheKeys]_vars

\* One caller of flux_ai_cache at a time: FluxAICache.get_or_execute, lines 57-86
\* (Redis lookup, table lookup and refill, func awaited once, _cache_result).
NextFluxCache ==
    \/ \E ttl \in TtlArgs, f \in {"A", "B"} : GoeRedisHit("p1", "k1", ttl, f)
    \/ \E ttl \in TtlArgs, f \in {"A", "B"} : GoeRedisMiss("p1", "k1", ttl, f)
    \/ GoeDbLookup("p1")
    \/ GoeRedisFill("p1")
    \/ ExecReturn("p1")
    \/ CacheRedisSet("p1")
    \/ FluxCacheDbAdd("p1")
    \/ RedisLose("k1")
    \/ \E d \in {1, default_ttl} : CacheTick(d)

SpecFluxCache == Init /\ [][NextFluxCache]_vars

\* One caller of the cache whose func is a client method behind the breaker.
NextCompose ==
    \/ \E ttl \in TtlArgs : GoeRedisHit("p1", "k1", ttl, "result")
    \/ \E ttl \in TtlArgs : GoeRedisMiss("p1", "k1", ttl, "result")
    \/ GoeDbLookup("p1")
    \/ GoeRedisFill("p1")
    \/ ExecAwaitsBreaker("p1", "c1") /\ CallBlocked("c1", ComposedForm)
    \/ ExecAwaitsBreaker("p1", "c1") /\ CallTrial("c1", ComposedForm)
    \/ ExecAwaitsBreaker("p1", "c1") /\ CallPassed("c1", ComposedForm)
    \/ CallSucceed("c1")
    \/ CallFail("c1")
    \/ ExecBreakerReturn("p1", "c1")
    \/ ExecBreakerRetry("p1", "c1")
    \/ ExecBreakerRaise("p1", "c1")
    \/ CacheRedisSet("p1")
    \/ CacheDbSelect("p1")
    \/ CacheDbUpsert("p1")
    \/ RedisLose("k1")
    \/ \E d \in {1, default_ttl} : CacheTick(d)

SpecCompose == InitBreaker /\ [][NextCompose]_vars

\* One caller of the cache, and invalidations that complete while its call runs.
NextCacheInvalidate ==
    \/ \E ttl \in TtlArgs, f \in {"A", "B"} : GoeRedisHit("p1", "k1", ttl, f)
    \/ \E ttl \in TtlArgs, f \in {"A", "B"} : GoeRedisMiss("p1", "k1", ttl, f)
    \/ GoeDbLookup("p1")
    \/ GoeRedisFill("p1")
    \/ ExecReturn("p1")
    \/ CacheRedisSet("p1")
    \/ CacheDbSelect("p1")
    \/ CacheDbUpsert("p1")
    \/ Invalidate("k1")
    \/ InvalidateDuring("k1")
    \/ \E d \in {1, default_ttl} : CacheTick(d)

SpecCacheInvalidate == Init /\ [][NextCacheInvalidate]_vars

\* Two callers interleaved on one key.
NextCacheRace ==
    \/ \E p \in Procs, ttl \in TtlArgs, f \in {"A", "B"} : GoeRedisHit(p, "k1", ttl, f)
    \/ \E p \in Procs, ttl \in TtlArgs, f \in {"A", "B"} : GoeRedisMiss(p, "k1", ttl, f)
    \/ \E p \in Procs : GoeDbLookup(p)
    \/ \E p \in Procs : GoeRedisFill(p)
    \/ \E p \in Procs : ExecReturn(p)
    \/ \E p \in Procs : CacheRedisSet(p)
    \/ \E p \in Procs : CacheDbSelect(p)
    \/ \E p \in Procs : CacheDbUpsert(p)
    \/ CacheTick(1)

SpecCacheRace == Init /\ [][NextCacheRace]_vars

\* The same, with store operations that may fail.
NextCacheFaults ==
    \/ NextCache
    \/ \E k \in OneKey, ttl \in TtlArgs, f \in Payloads : GoeRedisGetFails("p1", k, ttl, f)
    \/ GoeDbLookupFails("p1")
    \/ GoeRedisFillFails("p1")
    \/ CacheRedisSetFails("p1")
    \/ CacheDbFails("p1")

SpecCacheFaults == Init /\ [][NextCacheFaults]_vars

(***************************************************************************)
(* Claims about the circuit breaker                                        *)
(***************************************************************************)
\* Caller c enters call() in this step (a step that leaves every variable as it
\* is, a blocked call answered as the caller's previous one, is a stuttering step).
Starts(c) == calls[c].pc = "idle" /\ calls'[c] # calls[c]

\* The func awaited by caller c returns / raises in this step.
FuncReturns(c) == calls[c].pc = "awaiting" /\ calls'[c].pc = "idle"
                  /\ calls'[c].out.val = "result"
FuncRaises(c)  == calls[c].pc = "awaiting" /\ calls'[c].pc = "idle"
                  /\ calls'[c].out.val # "result"

GotFallback(o) == o.kind = "return" /\ o.val = "fallback"

\* C2: from CLOSED with failure_count 0, the N-th failing call in a row
\* (N = failure_threshold) leaves the state OPEN; a call entered while OPEN and
\* no later than last_failure_time + recovery_timeout does not await func and
\* returns the fallback response.
C2_ThresholdOpensThenFallback ==
    [][ /\ (failure_count' = failure_count + 1 /\ consec' >= failure_threshold)
             => state' = OPEN
        /\ \A c \in Callers :
             (Starts(c) /\ state = OPEN /\ now <= last_failure_time + recovery_timeout)
             => /\ calls'[c].pc = "idle"
                /\ GotFallback(calls'[c].out)
      ]_vars

\* C3 as stated: OPEN and more than recovery_timeout since the transition to OPEN:
\* the next call is passed through (HALF_OPEN); its success closes the circuit with
\* failure_count 0, its failure leaves the circuit OPEN.
C3_RecoveryFromOpenTransition ==
    [][ \A c \in Callers :
          /\ (Starts(c) /\ state = OPEN /\ now > openedAt + recovery_timeout)
               => (calls'[c].pc = "awaiting" /\ state' = HALF_OPEN)
          /\ (calls[c].entry = "trial" /\ FuncReturns(c))
               => (state' = CLOSED /\ failure_count' = 0)
          /\ (calls[c].entry = "trial" /\ FuncRaises(c))
               => state' = OPEN
      ]_vars

\* C3 amended: OPEN and more than recovery_timeout since last_failure_time (the
\* latest recorded failure): the next call is passed through and sets HALF_OPEN;
\* if it succeeds while the state is still HALF_OPEN the circuit is CLOSED with
\* failure_count 0; if it fails and no other call has closed the circuit
\* meanwhile, the circuit is OPEN.
C3_RecoveryFromLastFailure ==
    [][ \A c \in Callers :
          /\ (Starts(c) /\ state = OPEN /\ now > last_failure_time + recovery_timeout)
               => (calls'[c].pc = "awaiting" /\ state' = HALF_OPEN)
          /\ (calls[c].entry = "trial" /\ FuncReturns(c) /\ state = HALF_OPEN)
               => (state' = CLOSED /\ failure_count' = 0)
          /\ (calls[c].entry = "trial" /\ FuncRaises(c) /\ state # CLOSED)
               => state' = OPEN
      ]_vars

\* A trial call made after the timeout has returned and closed the circuit.
C3_Witness ==
    \E c \in Callers :
       /\ calls[c].entry = "trial" /\ calls[c].pc = "idle"
       /\ calls[c].out.val = "result"
       /\ state = CLOSED /\ failure_count = 0

\* C4: a client method called (positionally or by keyword) while the circuit is
\* OPEN and the timeout has not elapsed makes no remote request, raises nothing and
\* returns the fallback response of that operation.
C4_OpenClientCallReturnsFallback ==
    [][ \A c \in Callers :
          (Starts(c) /\ state = OPEN /\ ~(now > last_failure_time + recovery_timeout)
                     /\ calls'[c].form.op \in ClientOps)
          => /\ calls'[c].pc = "idle"
             /\ calls'[c].out = Returned("fallback", calls'[c].form.op)
      ]_vars

\* C5 as stated: a passed-through call whose func raises records the failure and
\* raises that error; only calls that found the circuit OPEN get a fallback.
C5_FailureAlwaysRaises ==
    [][ \A c \in Callers :
          /\ FuncRaises(c)
               => /\ failure_count' = failure_count + 1
                  /\ last_failure_time' = now
                  /\ calls'[c].out = Raised("func_error")
          /\ ((Starts(c) \/ calls[c].pc = "awaiting") /\ GotFallback(calls'[c].out))
               => calls'[c].entry = "open"
      ]_vars

\* C5 amended: a passed-through call whose func raises records the failure
\* (failure_count + 1, last_failure_time = now); it raises that error exactly when
\* the circuit is CLOSED after the recording; when the recording leaves the circuit
\* OPEN the call is answered by the fallback handler instead.
C5_FailureRaisesUnlessOpen ==
    [][ \A c \in Callers :
          FuncRaises(c)
          => /\ failure_count' = failure_count + 1
             /\ last_failure_time' = now
             /\ (state' = CLOSED => calls'[c].out = Raised("func_error"))
             /\ (state' # CLOSED => /\ state' = OPEN
                                    /\ calls'[c].out = FallbackOutcome(calls[c].form)
                                    /\ calls'[c].out # Raised("func_error"))
      ]_vars

\* One passed-through failure was raised to its caller, another (the one that
\* opened the circuit) was answered by the fallback.
C5_Witness ==
    \E c, d \in Callers :
       /\ calls[c].entry = CLOSED /\ calls[c].out = Raised("func_error")
       /\ calls[d].entry = CLOSED /\ GotFallback(calls[d].out)
       /\ last_failure_time > 0

\* C6: while every real call fails, a call made once the circuit has opened
\* (it found the circuit OPEN or HALF_OPEN) returns a fallback payload and raises
\* nothing.
C6_OutageGivesOnlyFallbacks ==
    allFailed =>
      \A c \in Callers :
         (calls[c].pc = "idle" /\ calls[c].entry \in {"open", "trial", HALF_OPEN})
         => GotFallback(calls[c].out)


(***************************************************************************)
(* Claims about EnhancedCache                                              *)
(***************************************************************************)
\* Caller p enters get_or_execute(cache_key=k) without bypass in this step.
Looks(p, k) == \E ttl \in TtlArgs, f \in Payloads :
                  GoeRedisHit(p, k, ttl, f) \/ GoeRedisMiss(p, k, ttl, f)

\* C1: get_or_execute never returns as a hit (from Redis or from the table) a
\* payload whose expires_at, fixed when it was written, is before the current time.
C1_NoExpiredHit ==
    [][ \A p \in Procs, k \in Keys :
          /\ (\E ttl \in TtlArgs, f \in Payloads : GoeRedisHit(p, k, ttl, f))
               => ~(redis[k].ea < now)
          /\ (GoeDbLookup(p) /\ procs[p].key = k /\ procs'[p].pc = "redis_fill")
               => ~(db[k].expires_at < now)
      ]_vars

\* C7: right after a get_or_execute that missed and stored V under K, a
\* get_or_execute for K made before the TTL has elapsed returns V at once and does
\* not invoke its function.
C7_HitAfterStore ==
    [][ \A p \in Procs, k \in Keys :
          (prev.kind = "stored" /\ prev.key = k /\ now < prev.exp /\ Looks(p, k))
          => /\ procs'[p].pc = "idle"
             /\ procs'[p].out = Returned(prev.val, "")
             /\ procs'[p].invoked = 0
      ]_vars

\* A call with another function has just been served the stored value.
C7_Witness ==
    \E p \in Procs :
       /\ prev.kind = "followed"
       /\ procs[p].pc = "idle" /\ procs[p].key = prev.key
       /\ prev.func # prev.val
       /\ procs[p].out = Returned(prev.val, "")
       /\ now > 0

\* C8: a bypassing get_or_execute invokes func and, when it returns, both tiers
\* hold the new result for the key.
C8_BypassRefreshesCache ==
    [][ \A p \in Procs :
          (ExecReturn(p) /\ procs[p].bypass)
          => /\ procs'[p].invoked >= 1
             /\ RedisGet(procs[p].key)' = json_dumps(procs[p].func)
             /\ DbSelectValid(procs[p].key)' = procs[p].func
      ]_vars

\* C9: no get_or_execute raises because a store operation failed.
C9_StoreFailureSwallowed ==
    \A p \in Procs : procs[p].out # Raised("RedisError")

\* C10: when func's error is final, get_or_execute raises that very error and has
\* written nothing: this step leaves both stores as they are, and no earlier step
\* of the call wrote.
C10_FuncErrorPropagates ==
    [][ \A p \in Procs, e \in FuncErrors :
          (procs[p].pc = "exec" /\ ExecRaise(p, e))
          => /\ procs'[p].out = Raised(e)
             /\ redis' = redis /\ db' = db
             /\ ~procs'[p].wrote
      ]_vars

\* A call has raised the error of its third attempt, over an entry another call
\* left in the table.
C10_Witness ==
    \E p \in Procs :
       /\ procs[p].pc = "idle" /\ procs[p].invoked = max_tries
       /\ procs[p].out = Raised("timeout")
       /\ ~procs[p].bypass
       /\ db[procs[p].key] # NoRow

\* C11: a write for a key that has a row when the write is committed replaces
\* that row's payload and expires_at (there is one row per key, request_hash being
\* UNIQUE), and a write for a key without a row inserts it: after the write, the
\* row of the key carries the write.  No other row changes.
C11_WriteUpdatesRowInPlace ==
    [][ \A p \in Procs :
          (procs[p].pc = "cache_commit" /\ CacheDbUpsert(p)
             /\ (db[procs[p].key] # NoRow \/ procs[p].row = "none"))
          => /\ db'[procs[p].key] = [response_data |-> procs[p].val,
                                     expires_at |-> procs[p].ea]
             /\ \A k \in Keys \ {procs[p].key} : db'[k] = db[k]
      ]_vars

\* A write of B made after the clock moved has found a row for its key, and the
\* row now carries B and the write's expires_at.
C11_Witness ==
    \E p \in Procs :
       /\ procs[p].pc = "idle" /\ procs[p].src = "func" /\ procs[p].row = "live"
       /\ procs[p].wrote
       /\ db[procs[p].key].response_data = procs[p].out.val
       /\ prev.kind = "stored" /\ prev.val = "B" /\ now > 0
       /\ db[procs[p].key].expires_at = prev.exp

\* C12: invalidate(K) leaves K in neither store and touches no other key; on a
\* key that is in neither store, and right after an invalidation of K, it leaves
\* both stores as they are.  The get_or_execute(K) that comes next misses in Redis,
\* misses in the table and awaits func.
C12_InvalidateRemovesAndIsIdempotent ==
    [][ \A k \in Keys :
          /\ Invalidate(k)
               => /\ redis'[k] = NoEntry /\ db'[k] = NoRow
                  /\ \A j \in Keys \ {k} : redis'[j] = redis[j] /\ db'[j] = db[j]
                  /\ ((prev.kind = "invalidated" /\ prev.key = k)
                         \/ (redis[k] = NoEntry /\ db[k] = NoRow))
                       => (redis' = redis /\ db' = db)
          /\ \A p \in Procs :
                /\ (prev.kind = "invalidated" /\ prev.key = k /\ Looks(p, k))
                     => procs'[p].pc = "db_get"
                /\ (prev.kind = "refetching" /\ prev.key = k /\ procs[p].pc = "db_get"
                       /\ procs[p].key = k /\ GoeDbLookup(p))
                     => procs'[p].pc = "exec"
      ]_vars

\* A key that was cached has been invalidated, and the next call for it has
\* awaited func, which returned.
C12_Witness ==
    \E p \in Procs :
       /\ prev.kind = "refetching" /\ prev.val # "" /\ Truthy(prev.val)
       /\ procs[p].key = prev.key /\ procs[p].pc = "cache_redis"
       /\ procs[p].invoked = 1

\* C13: cleanup_expired() deletes the N rows whose expires_at is before now and
\* no other, returns N, leaves every row whose expires_at is after now to be found
\* by the lookup of get_or_execute, and leaves Redis as it is.
C13_CleanupDeletesExactlyExpired ==
    [][ CleanupExpired
        => LET old == {k \in Keys : db[k] # NoRow /\ db[k].expires_at < now}
           IN  /\ rowcount' = Cardinality(old)
               /\ \A k \in old : db'[k] = NoRow
               /\ \A k \in Keys \ old : db'[k] = db[k]
               /\ \A k \in Keys : (db[k] # NoRow /\ db[k].expires_at > now)
                                     => DbSelectValid(k)' = db[k].response_data
               /\ redis' = redis
      ]_vars

\* cleanup_expired() has just deleted one row and returned 1, leaving the row of
\* the other key, which expires later, and the Redis entry of the deleted key.
C13_Witness ==
    \E k, j \in Keys :
       /\ prev.kind = "cleaned" /\ rowcount = 1
       /\ db[k] = NoRow /\ redis[k] # NoEntry
       /\ db[j] # NoRow /\ db[j].expires_at > now

\* Python's == on two calls: the same function, equal positional arguments, and
\* equal keyword arguments whatever the order they were passed in.
SameCall(c, d) ==
    /\ c.func = d.func
    /\ Len(c.args) = Len(d.args)
    /\ \A i \in 1..Len(c.args) : ArgEq(c.args[i], d.args[i])
    /\ Len(c.kwargs) = Len(d.kwargs)
    /\ \A i \in 1..Len(c.kwargs) : \E j \in 1..Len(d.kwargs) :
          c.kwargs[i].name = d.kwargs[j].name /\ ArgEq(c.kwargs[i].arg, d.kwargs[j].arg)

\* C14: two calls with the same function and equal positional and keyword
\* arguments get the same key.
C14_EqualCallsSameKey ==
    (keyOut # <<>> /\ keyOut[1] # <<>> /\ keyOut[2] # <<>>
       /\ SameCall(keyCalls.c[1], keyCalls.c[2]))
    => keyOut[1] = keyOut[2]

\* C15: while a trial call (the call that set HALF_OPEN) awaits func, no other
\* call entering the breaker awaits func.
C15_OneTrialInHalfOpen ==
    [][ \A c \in Callers :
          (Starts(c) /\ \E d \in Callers \ {c} :
                          calls[d].entry = "trial" /\ calls[d].pc = "awaiting")
          => calls'[c].pc # "awaiting"
      ]_vars

\* C16: a passed-through call that succeeds while the breaker is CLOSED leaves
\* failure_count 0, and the breaker goes from CLOSED to OPEN only when
\* failure_threshold calls in a row have failed.
C16_CountsConsecutiveFailures ==
    [][ /\ \A c \in Callers : (FuncReturns(c) /\ state = CLOSED) => failure_count' = 0
        /\ (state = CLOSED /\ state' = OPEN) => consec' >= failure_threshold
      ]_vars

\* C18: the cancellation of a call that awaits func changes neither failure_count
\* nor last_failure_time nor the state.
C18_CancellationIsNoFailure ==
    [][ \A c \in Callers :
          CallCancel(c)
          => /\ failure_count' = failure_count
             /\ last_failure_time' = last_failure_time
             /\ state' = state
      ]_vars

\* A call let through by a CLOSED breaker that had counted a failure was
\* cancelled, and the breaker is still CLOSED with that count.
C18_Witness ==
    \E c \in Callers :
       /\ calls[c].pc = "idle" /\ calls[c].out = Raised("CancelledError")
       /\ calls[c].entry = CLOSED
       /\ state = CLOSED /\ failure_count = 1 /\ failure_threshold = 2

\* C19: every failure of a passed-through call adds exactly one to failure_count,
\* whatever the interleaving, and nothing else changes failure_count but the reset
\* to 0 of a success in HALF_OPEN.
C19_NoLostFailureCount ==
    [][ /\ \A c \in Callers : FuncRaises(c) => failure_count' = failure_count + 1
        /\ (\A c \in Callers : ~FuncRaises(c))
             => \/ failure_count' = failure_count
                \/ (failure_count' = 0 /\ state = HALF_OPEN /\ state' = CLOSED)
      ]_vars

\* Three calls of two interleaved callers, all let through by the CLOSED breaker,
\* have failed, and failure_count is 3.
C19_Witness ==
    /\ failure_count = 3 /\ consec = 3
    /\ \A c \in Callers : calls[c].pc = "idle" /\ calls[c].entry = CLOSED
                            /\ calls[c].out.val # "result"

\* C17: when the write of a get_or_execute that missed is committed after another
\* call's miss on the same key has written and returned, the table holds the
\* payload of the committing call, the later writer.
C17_LastWriterWins ==
    [][ \A p \in Procs, q \in Procs :
          (p # q /\ procs[p].pc = "cache_commit" /\ CacheDbUpsert(p)
             /\ procs[q].pc = "idle" /\ procs[q].src = "func" /\ procs[q].wrote
             /\ procs[q].key = procs[p].key)
          => db'[procs[p].key].response_data = procs[p].val
      ]_vars

\* C20: one get_or_execute invokes func at most max_tries (3) times; func is
\* invoked again only after an HTTP 5xx or a timeout error; an error with a status
\* below 500 at the first attempt ends the call after that one invocation; the
\* error that ends the call is the one raised to the caller.
C20_BoundedRetries ==
    [][ \A p \in Procs :
          /\ procs'[p].invoked <= max_tries
          /\ (procs[p].pc = "exec" /\ procs'[p].pc = "exec"
                 /\ procs'[p].invoked = procs[p].invoked + 1)
               => procs'[p].lastErr \in {"http_5xx", "timeout"}
          /\ (procs[p].pc = "exec" /\ procs[p].invoked = 0
                 /\ ExecRaise(p, "http_4xx"))
               => (procs'[p].pc = "idle" /\ procs'[p].invoked = 1)
          /\ \A e \in FuncErrors :
                (procs[p].pc = "exec" /\ ExecRaise(p, e)) => procs'[p].out = Raised(e)
      ]_vars

\* A bypassing call has invoked func three times and raised the 5xx error of the
\* third attempt.
C20_Witness ==
    \E p \in Procs :
       /\ procs[p].pc = "idle" /\ procs[p].bypass
       /\ procs[p].invoked = max_tries /\ procs[p].out = Raised("http_5xx")

(***************************************************************************)
(* Claims about get_fallback_response                                      *)
(***************************************************************************)
\* C21: get_fallback_response returns a response and never raises, whatever the
\* function name and the positional and keyword arguments.
C21_FallbackTotal == fbOut.kind # "raise"

\* C22: get_fallback_response("chat_completion", messages=M) returns a response
\* with exactly one choice, whose assistant message has a non-empty content, with
\* completion_tokens, prompt_tokens and total_tokens all 0, and with a failure
\* flag: a field success that is false.
C22_ChatFallbackShape ==
    (fbOut.kind = "return" /\ fbCall.name = "chat_completion"
       /\ fbCall.npos = 0 /\ fbCall.kw = {"messages"})
    => LET r == FallbackBody(fbOut.of)
       IN  /\ Len(r.choices) = 1
           /\ r.choices[1].message.role = "assistant"
           /\ r.choices[1].message.content # ""
           /\ Len(r.usage) >= 1
           /\ \A i \in 1..Len(r.usage) :
                 /\ r.usage[i].completion_tokens = 0
                 /\ r.usage[i].prompt_tokens = 0
                 /\ r.usage[i].total_tokens = 0
           /\ "success" \in DOMAIN r
           /\ r.success = FALSE

(***************************************************************************)
(* Claims about the cache tiers                                            *)
(***************************************************************************)
\* C23: a get_or_execute(K) that finds K absent from Redis and an unexpired row
\* for K in the table, whatever its payload, takes the payload as a hit; it then
\* returns that payload without having invoked func and leaves Redis holding it.
C23_PersistentHitFillsVolatile ==
    [][ \A p \in Procs :
          /\ (procs[p].pc = "db_get" /\ GoeDbLookup(p)
                 /\ ~BytesTruthy(RedisGet(procs[p].key))
                 /\ db[procs[p].key] # NoRow /\ db[procs[p].key].expires_at > now)
               => /\ procs'[p].pc = "redis_fill"
                  /\ procs'[p].val = db[procs[p].key].response_data
          /\ (procs[p].pc = "redis_fill" /\ GoeRedisFill(p))
               => /\ procs'[p].out = Returned(procs[p].val, "")
                  /\ procs'[p].invoked = 0
                  /\ RedisGet(procs[p].key)' = json_dumps(procs[p].val)
      ]_vars

\* C24: in FluxAICache, the write of a get_or_execute that missed on a key whose
\* expired row is still in the table replaces that row: the row carries the new
\* payload and the new expires_at, and the table lookup finds the new payload.
C24_FluxMissReplacesExpiredRow ==
    [][ \A p \in Procs :
          (procs[p].pc = "cache_db" /\ FluxCacheDbAdd(p)
             /\ db[procs[p].key] # NoRow /\ ~(db[procs[p].key].expires_at > now))
          => /\ db'[procs[p].key] = [response_data |-> procs[p].val,
                                     expires_at |-> procs[p].ea]
             /\ DbSelectValid(procs[p].key)' = procs[p].val
      ]_vars

\* C25: with a breaker-wrapped client method as func, neither Redis nor the table
\* ever holds the fallback response of the breaker.
C25_FallbackNeverCached ==
    \A k \in Keys :
       /\ redis[k].val # json_dumps("fallback")
       /\ db[k].response_data # "fallback"

(***************************************************************************)
(* Claims about interleaved calls of the breaker                           *)
(***************************************************************************)
\* C26: the success that takes the breaker from HALF_OPEN to CLOSED is that of a
\* call let through at or after the transition to HALF_OPEN; the success of a call
\* that entered while the breaker was CLOSED, returning after the circuit has
\* opened, changes neither the state nor failure_count.
C26_OnlyTrialSuccessCloses ==
    [][ \A c \in Callers :
          /\ (FuncReturns(c) /\ state = HALF_OPEN /\ state' = CLOSED)
               => calls[c].entry \in {"trial", HALF_OPEN}
          /\ (FuncReturns(c) /\ calls[c].entry = CLOSED /\ state # CLOSED)
               => (state' = state /\ failure_count' = failure_count)
      ]_vars

\* C28: in every reachable state, CLOSED implies failure_count < failure_threshold,
\* OPEN and HALF_OPEN imply failure_count >= failure_threshold, and failure_count
\* is not negative.
C28_StateCountInvariant ==
    /\ failure_count >= 0
    /\ state = CLOSED => failure_count < failure_threshold
    /\ state \in {OPEN, HALF_OPEN} => failure_count >= failure_threshold

\* Two interleaved calls let through by the CLOSED breaker have both failed: the
\* first opened the circuit, the second was counted while it was OPEN.
C28_Witness ==
    /\ state = OPEN /\ failure_count = failure_threshold + 1
    /\ \A c \in Callers : calls[c].pc = "idle" /\ calls[c].entry = CLOSED
                            /\ calls[c].out.val # "result"
    /\ consec = failure_count

\* C27: once invalidate(K) has completed while a get_or_execute(K) that missed
\* was running, no later step of that call puts its result into Redis or into the
\* table: K stays absent from both.
C27_NoWriteBackOverInvalidation ==
    [][ \A p \in Procs, k \in Keys :
          (prev.kind = "raced" /\ prev.key = k /\ procs[p].key = k
             /\ procs[p].pc \in {"exec", "cache_redis", "cache_db", "cache_commit"})
          => (redis'[k] = NoEntry /\ db'[k] = NoRow)
      ]_vars

(***************************************************************************)
(* Claims about cache keys                                                 *)
(***************************************************************************)
\* C30: two calls that differ in the function, in a positional argument or in a
\* keyword argument get different keys.
C30_NoKeyCollision ==
    (keyOut # <<>> /\ keyOut[1] # <<>> /\ keyOut[2] # <<>>
       /\ ~SameCall(keyCalls.c[1], keyCalls.c[2]))
    => keyOut[1] # keyOut[2]

(***************************************************************************)
(* Recovery of the breaker                                                 *)
(***************************************************************************)
\* C29: when from some point on every func awaited succeeds, while time advances
\* and calls keep being made, the breaker is eventually CLOSED for good, and again
\* and again a call let through by the CLOSED breaker awaits func.
C29_EventuallyClosedForGood ==
    /\ <>[](state = CLOSED)
    /\ []<>(state = CLOSED /\ \E c \in Callers :
                                calls[c].pc = "awaiting" /\ calls[c].entry = CLOSED)

\* After the outage, the circuit that had opened is CLOSED again with
\* failure_count 0: a trial call has returned func's result, and the other caller
\* has been let through and awaits func.
C29_Witness ==
    /\ ticks = MaxTicks /\ state = CLOSED /\ failure_count = 0 /\ openedAt >= 0
    /\ \E c, d \in Callers :
          /\ calls[c].pc = "idle" /\ calls[c].entry = "trial"
          /\ calls[c].out.val = "result"
          /\ calls[d].pc = "awaiting" /\ calls[d].entry = CLOSED

====
